---- MODULE Spec2Model ----
(***************************************************************************)
(* Model of the bounded LRU cache (LRUCache) and of the metrics aggregator *)
(* (SystemMetrics) of src/main.py.                                         *)
(*                                                                         *)
(* The cache is an OrderedDict: a sequence of [key, value] entries, least  *)
(* recently used first.  Three specifications share the variables:         *)
(*   Spec        - one caller; every cache call is one step                *)
(*   SpecMetrics - the aggregator's recording calls and read accessors     *)
(*   SpecConc    - several threads, one step per statement, with the       *)
(*                 two RLocks                                              *)
(***************************************************************************)
EXTENDS Integers, Sequences, FiniteSets, TLC

\* ------------------------------------------------------------------ bounds
NumKeys == 3
MaxValue == 1
MaxCap == 2
MaxGets == 1
\* SpecMetrics: recording calls issued, input streams of response times
MaxRequests == 102
MaxDbQueries == 2
MaxHitMiss == 3
NumFeeds == 2
SampleMod == 7
\* SpecConc: threads, keys, capacities, get calls issued
NumThreads == 2
NumConcKeys == 2
MaxConcCap == 1
MaxConcGets == 2
MaxMetricsCalls == 3
NumStudents == 2
MaxApiCap == 1
MaxApiRequests == 5
MaxCalls == 4
MaxLockCalls == 2
MaxBatches == 2

\* deque(maxlen=100)
WindowMaxLen == 100

\* ALERT_RESPONSE_TIME_MS = int(os.getenv(...)): any integer; taken inside the
\* range of the response times of the sample streams.
ALERT_RESPONSE_TIME_MS == 3
\* ALERT_CACHE_HIT_RATE = 0.70, in percent
ALERT_CACHE_HIT_RATE == 70

\* Python's None: the result of a get that misses (and a storable value: Any).
None == 0
\* The key field of a call that takes no key.
NoKey == None

Keys == 1..NumKeys
Values == None..MaxValue
\* CACHE_SIZE is int(os.getenv(...)): any integer, non-positive ones included.
Capacities == (0 - 1)..MaxCap

VARIABLES
    capacity,       \* LRUCache.capacity
    cache,          \* LRUCache.cache, least recently used first
    cache_hits,     \* SystemMetrics.cache_hits
    cache_misses,   \* SystemMetrics.cache_misses
    last,           \* the most recent call: what was called and what it returned
    before,         \* LRUCache.cache as it was when the most recent call began
    putRun,         \* keys of the current run of consecutive puts of distinct keys
    request_count,  \* SystemMetrics.request_count
    db_query_count, \* SystemMetrics.db_query_count
    response_times, \* SystemMetrics.response_times, oldest first
    feed,           \* which input stream the response times come from
    pc,             \* per thread: the statement it is about to execute
    loc,            \* per thread: the arguments and locals of its call
    cacheLock,      \* LRUCache.lock
    metricsLock,    \* SystemMetrics.lock
    issued,         \* calls begun (get calls; calls of the aggregator)
    returned,       \* get calls that have returned or raised
    calls,          \* per recording operation: the calls that have returned
    students,       \* table students: the student_id of its rows
    grades,         \* table grades: per student_id the scores, oldest first
    seen,           \* per student_id: the body of the latest 200 of GET /students/{id}
    cost,           \* COST_PER_DB_QUERY and COST_PER_100_API_CALLS, in 1e-7 dollars
    access          \* the number of cache calls made and, per key, the call that
                    \* last accessed it (a put, or a get that hit)

cacheVars == <<capacity, cache, before, putRun>>
metricVars == <<request_count, db_query_count, response_times, feed>>
apiVars == <<students, grades, seen, cost, access>>
threadVars == <<pc, loc, cacheLock, metricsLock, issued, returned, calls,
                students, grades, seen, cost, access>>
vars == <<capacity, cache, cache_hits, cache_misses, last, before, putRun,
          request_count, db_query_count, response_times, feed,
          pc, loc, cacheLock, metricsLock, issued, returned, calls,
          students, grades, seen, cost, access>>

Threads == 1..NumThreads
NoThread == 0
StudentIds == 1..NumStudents

\* ------------------------------------------------------- OrderedDict
KeysOf(c) == {c[i].key : i \in DOMAIN c}

\* key in self.cache
Contains(c, k) == k \in KeysOf(c)

IndexOf(c, k) == CHOOSE i \in DOMAIN c : c[i].key = k

\* self.cache[key] (read)
Lookup(c, k) == c[IndexOf(c, k)].value

RemoveAt(c, i) == SubSeq(c, 1, i - 1) \o SubSeq(c, i + 1, Len(c))

\* self.cache.pop(key): the entry leaves, the others keep their order
OdPop(c, k) == RemoveAt(c, IndexOf(c, k))

\* self.cache[key] = value: a new key goes to the end, a present key keeps
\* its place
OdSetItem(c, k, v) ==
    IF Contains(c, k)
    THEN [c EXCEPT ![IndexOf(c, k)].value = v]
    ELSE Append(c, [key |-> k, value |-> v])

\* Faulty variant: popitem() without last=False removes the newest entry.
OdPopFirstLast(c) == SubSeq(c, 1, Len(c) - 1)

\* self.cache.popitem(last=False)
OdPopFirst(c) == Tail(c)

\* Faulty variant: the invalidation empties the dictionary (clear()).
OdPopDefaultClear(c, k) == <<>>

\* self.cache.pop(key, None)
OdPopDefault(c, k) == IF Contains(c, k) THEN OdPop(c, k) ELSE c

\* ------------------------------------------------------------ LRUCache
\* __init__: no check of the capacity
LRUCacheInit(cap) == [capacity |-> cap, cache |-> <<>>, raised |-> FALSE]

\* Faulty variant: the capacity test off by one.
AtCapacityStrict(c, cap) == Len(c) > cap

\* len(self.cache) >= self.capacity
AtCapacity(c, cap) == Len(c) >= cap

\* Faulty variant: a hit that does not move the key to the end.
GetPromoteNone(c, k) == c

\* get, the hit branch: value = self.cache.pop(key); self.cache[key] = value
GetPromote(c, k) == OdSetItem(OdPop(c, k), k, Lookup(c, k))

\* Faulty variant: a miss stores None under the key (setdefault).
GetResultSetDefault(c, k) ==
    IF Contains(c, k)
    THEN [cache |-> GetPromote(c, k), ret |-> Lookup(c, k), hit |-> TRUE]
    ELSE [cache |-> OdSetItem(c, k, None), ret |-> None, hit |-> FALSE]

\* get: [cache, ret, hit]
GetResult(c, k) ==
    IF Contains(c, k)
    THEN [cache |-> GetPromote(c, k), ret |-> Lookup(c, k), hit |-> TRUE]
    ELSE [cache |-> c, ret |-> None, hit |-> FALSE]

\* Faulty variant: the capacity test comes before the presence test.
PutMakeRoomAlways(c, cap, k) ==
    IF AtCapacity(c, cap)
    THEN IF c = <<>>
         THEN [cache |-> c, raised |-> TRUE]
         ELSE [cache |-> OdPopFirst(c), raised |-> FALSE]
    ELSE [cache |-> OdPopDefault(c, k), raised |-> FALSE]

\* put, before the insertion: pop the key if present, else evict the least
\* recently used entry when full; popitem on an empty dict raises KeyError
PutMakeRoom(c, cap, k) ==
    IF Contains(c, k)
    THEN [cache |-> OdPop(c, k), raised |-> FALSE]
    ELSE IF AtCapacity(c, cap)
         THEN IF c = <<>>
              THEN [cache |-> c, raised |-> TRUE]
              ELSE [cache |-> OdPopFirst(c), raised |-> FALSE]
         ELSE [cache |-> c, raised |-> FALSE]

\* put: [cache, raised]
PutResult(c, cap, k, v) ==
    LET room == PutMakeRoom(c, cap, k)
    IN  IF room.raised
        THEN room
        ELSE [cache |-> OdSetItem(room.cache, k, v), raised |-> FALSE]

\* size
Size(c) == Len(c)

\* ------------------------------------------------------------ history
Call(op, k, v, r, x) == [op |-> op, key |-> k, val |-> v, ret |-> r, raised |-> x]

\* The run of puts of pairwise distinct keys that ends with the put of k: a key
\* put again starts the run afresh after its earlier put; the run keeps its
\* last MaxCap + 1 keys.
RunAppend(run, k) ==
    LET same == {i \in DOMAIN run : run[i] = k}
        fresh == IF same = {} THEN run
                 ELSE SubSeq(run, (CHOOSE i \in same : TRUE) + 1, Len(run))
    IN  IF Len(fresh) = MaxCap + 1 THEN Append(Tail(fresh), k) ELSE Append(fresh, k)

\* The last n keys of the run
RunTail(run, n) == SubSeq(run, Len(run) - n + 1, Len(run))


\* ------------------------------------------------------ threading.RLock
FreeLock == [owner |-> NoThread, depth |-> 0]

\* Faulty variant: a lock that excludes nobody.
CanAcquireAlways(l, t) == TRUE

\* RLock.acquire does not block when the lock is free or held by the caller
CanAcquire(l, t) == l.owner \in {NoThread, t}

\* with self.lock: (enter)
Acquire(l, t) == [owner |-> t, depth |-> IF l.owner = t THEN l.depth + 1 ELSE 1]

\* Faulty variant: leaving the with block keeps the lock.
ReleaseKeeping(l) == l

\* with self.lock: (exit, normal or by an exception)
Release(l) == IF l.depth <= 1 THEN FreeLock ELSE [l EXCEPT !.depth = l.depth - 1]

\* No call of a recording operation has returned.
NoCalls == [record_request |-> 0, record_db_query |-> 0, record_cache_hit |-> 0,
            record_cache_miss |-> 0]

NoLocals == [op |-> "none", key |-> NoKey, val |-> None, value |-> None,
             raised |-> FALSE]

\* The environment sets no cost: 0.0001 per query, 0.001 per 100 API calls.
DefaultCosts == cost = [per_db_query |-> 1000, per_100_api_calls |-> 10000]

\* No call of the cache has been made.
NoAccess == [clock |-> 0, stamp |-> [k \in Keys |-> 0]]

\* init_database on a new file: the tables are empty; no request was served
\* and no call of the cache was made.
DbEmpty ==
    /\ access = NoAccess
    /\ students = {}
    /\ grades = [s \in StudentIds |-> <<>>]
    /\ seen = [s \in StudentIds |-> <<>>]

\* No thread is inside a call.
ThreadsIdle ==
    /\ pc = [t \in Threads |-> "idle"]
    /\ loc = [t \in Threads |-> NoLocals]
    /\ cacheLock = FreeLock
    /\ metricsLock = FreeLock
    /\ issued = 0
    /\ returned = 0
    /\ calls = NoCalls

\* ------------------------------------------------------------ Spec
Init ==
    /\ \E cap \in Capacities :
          LET obj == LRUCacheInit(cap)
          IN  /\ capacity = obj.capacity
              /\ cache = obj.cache
              /\ last = Call("init", NoKey, None, None, obj.raised)
    /\ cache_hits = 0
    /\ cache_misses = 0
    /\ before = <<>>
    /\ putRun = <<>>
    /\ request_count = 0
    /\ db_query_count = 0
    /\ response_times = <<>>
    /\ feed = 1
    /\ ThreadsIdle
    /\ DbEmpty
    /\ DefaultCosts

\* Faulty variant: put reports a miss to the aggregator when the key is new.
PutCountingMiss(k, v) ==
    LET res == PutResult(cache, capacity, k, v)
    IN  /\ cache' = res.cache
        /\ cache_misses' = IF Contains(cache, k) THEN cache_misses
                           ELSE cache_misses + 1
        /\ last' = Call("put", k, v, None, res.raised)
        /\ before' = cache
        /\ putRun' = RunAppend(putRun, k)
        /\ UNCHANGED <<capacity, cache_hits, metricVars, threadVars>>

\* student_cache.put(key, value)
Put(k, v) ==
    LET res == PutResult(cache, capacity, k, v)
    IN  /\ cache' = res.cache
        /\ last' = Call("put", k, v, None, res.raised)
        /\ before' = cache
        /\ putRun' = RunAppend(putRun, k)
        /\ UNCHANGED <<capacity, cache_hits, cache_misses, metricVars, threadVars>>

\* student_cache.get(key): the lookup and the report to the aggregator
Get(k) ==
    LET res == GetResult(cache, k)
    IN  /\ cache_hits + cache_misses < MaxGets
        /\ cache' = res.cache
        /\ cache_hits' = IF res.hit THEN cache_hits + 1 ELSE cache_hits
        /\ cache_misses' = IF res.hit THEN cache_misses ELSE cache_misses + 1
        /\ last' = Call("get", k, None, res.ret, FALSE)
        /\ before' = cache
        /\ putRun' = <<>>
        /\ UNCHANGED <<capacity, metricVars, threadVars>>

\* student_cache.size()
SizeCall ==
    /\ last' = Call("size", NoKey, None, Size(cache), FALSE)
    /\ before' = cache
    /\ putRun' = <<>>
    /\ UNCHANGED <<capacity, cache, cache_hits, cache_misses, metricVars, threadVars>>

\* student_cache.cache.pop(key, None): the request layer's invalidation
Invalidate(k) ==
    /\ cache' = OdPopDefault(cache, k)
    /\ last' = Call("invalidate", k, None, None, FALSE)
    /\ before' = cache
    /\ putRun' = <<>>
    /\ UNCHANGED <<capacity, cache_hits, cache_misses, metricVars, threadVars>>

PutAny == \E k \in Keys, v \in Values : Put(k, v)
GetAny == \E k \in Keys : Get(k)
InvalidateAny == \E k \in Keys : Invalidate(k)

Next == PutAny \/ GetAny \/ SizeCall \/ InvalidateAny

Spec == Init /\ [][Next]_vars

\* ------------------------------------------------------- SystemMetrics
\* A float result, kept exact: num / den with den > 0.
Ratio(n, d) == [num |-> n, den |-> d]
Zero == Ratio(0, 1)

RECURSIVE SumSeq(_)
SumSeq(q) == IF q = <<>> THEN 0 ELSE Head(q) + SumSeq(Tail(q))

\* Faulty variant: a full window refuses the new sample.
DequeAppendDropNewest(d, x) == IF Len(d) = WindowMaxLen THEN d ELSE Append(d, x)

\* deque(maxlen=100).append(x): a full deque drops its oldest item
DequeAppend(d, x) ==
    IF Len(d) = WindowMaxLen THEN Append(Tail(d), x) ELSE Append(d, x)

\* Faulty variant: hits per miss instead of hits per access.
GetCacheHitRateOfMisses(hits, misses) ==
    IF hits + misses > 0 THEN Ratio(hits, misses) ELSE Zero

\* get_cache_hit_rate
GetCacheHitRate(hits, misses) ==
    LET total == hits + misses
    IN  IF total > 0 THEN Ratio(hits, total) ELSE Zero

\* get_avg_response_time: mean(self.response_times), 0.0 when empty
GetAvgResponseTime(times) ==
    IF times # <<>> THEN Ratio(SumSeq(times), Len(times)) ELSE Zero

\* get_requests_per_minute
GetRequestsPerMinute(times) == Len(times)

\* The n-th response time (ms) of input stream f.
Sample(f, n) == (f * n) % SampleMod

InitMetrics ==
    /\ capacity = MaxCap
    /\ cache = <<>>
    /\ before = <<>>
    /\ putRun = <<>>
    /\ cache_hits = 0
    /\ cache_misses = 0
    /\ request_count = 0
    /\ db_query_count = 0
    /\ response_times = <<>>
    /\ feed \in 1..NumFeeds
    /\ ThreadsIdle
    /\ DbEmpty
    /\ DefaultCosts
    /\ last = Call("init", NoKey, None, None, FALSE)

\* metrics.record_request(response_time_ms)
RecordRequest ==
    /\ request_count < MaxRequests
    /\ request_count' = request_count + 1
    /\ response_times' = DequeAppend(response_times, Sample(feed, request_count + 1))
    /\ last' = Call("record_request", NoKey, Sample(feed, request_count + 1), None, FALSE)
    /\ UNCHANGED <<cacheVars, cache_hits, cache_misses, db_query_count, feed, threadVars>>

\* metrics.record_db_query()
RecordDbQuery ==
    /\ db_query_count < MaxDbQueries
    /\ db_query_count' = db_query_count + 1
    /\ last' = Call("record_db_query", NoKey, None, None, FALSE)
    /\ UNCHANGED <<cacheVars, cache_hits, cache_misses, request_count, response_times, feed, threadVars>>

\* metrics.record_cache_hit()
RecordCacheHit ==
    /\ cache_hits + cache_misses < MaxHitMiss
    /\ cache_hits' = cache_hits + 1
    /\ last' = Call("record_cache_hit", NoKey, None, None, FALSE)
    /\ UNCHANGED <<cacheVars, cache_misses, metricVars, threadVars>>

\* Faulty variant: a miss is counted by taking a hit back.
RecordCacheMissTakingHit ==
    /\ cache_hits + cache_misses < MaxHitMiss
    /\ cache_misses' = cache_misses + 1
    /\ cache_hits' = cache_hits - 1
    /\ last' = Call("record_cache_miss", NoKey, None, None, FALSE)
    /\ UNCHANGED <<cacheVars, metricVars, threadVars>>

\* metrics.record_cache_miss()
RecordCacheMiss ==
    /\ cache_hits + cache_misses < MaxHitMiss
    /\ cache_misses' = cache_misses + 1
    /\ last' = Call("record_cache_miss", NoKey, None, None, FALSE)
    /\ UNCHANGED <<cacheVars, cache_hits, metricVars, threadVars>>

\* metrics.get_cache_hit_rate()
ReadCacheHitRate ==
    /\ last' = Call("get_cache_hit_rate", NoKey, None,
                    GetCacheHitRate(cache_hits, cache_misses), FALSE)
    /\ UNCHANGED <<cacheVars, cache_hits, cache_misses, metricVars, threadVars>>

\* metrics.get_avg_response_time()
ReadAvgResponseTime ==
    /\ last' = Call("get_avg_response_time", NoKey, None,
                    GetAvgResponseTime(response_times), FALSE)
    /\ UNCHANGED <<cacheVars, cache_hits, cache_misses, metricVars, threadVars>>

\* metrics.get_requests_per_minute()
ReadRequestsPerMinute ==
    /\ last' = Call("get_requests_per_minute", NoKey, None,
                    GetRequestsPerMinute(response_times), FALSE)
    /\ UNCHANGED <<cacheVars, cache_hits, cache_misses, metricVars, threadVars>>

NextMetrics ==
    \/ RecordRequest
    \/ RecordDbQuery
    \/ RecordCacheHit
    \/ RecordCacheMiss
    \/ ReadCacheHitRate
    \/ ReadAvgResponseTime
    \/ ReadRequestsPerMinute

SpecMetrics == InitMetrics /\ [][NextMetrics]_vars

\* ------------------------------------------------------------ SpecConc
\* Threads calling get, put and size on the one shared cache; a step is one
\* statement.  A thread blocked on a lock is a thread whose acquiring step is
\* not enabled.
ConcKeys == 1..NumConcKeys
ConcValues == 1..MaxValue
ConcCapacities == 0..MaxConcCap

seqVars == <<before, putRun, request_count, db_query_count, response_times, feed,
             calls, students, grades, seen, cost, access>>

Goto(t, label) == pc' = [pc EXCEPT ![t] = label]

InitConc ==
    /\ \E cap \in ConcCapacities :
          LET obj == LRUCacheInit(cap)
          IN  /\ capacity = obj.capacity
              /\ cache = obj.cache
              /\ last = Call("init", NoKey, None, None, obj.raised)
    /\ cache_hits = 0
    /\ cache_misses = 0
    /\ before = <<>>
    /\ putRun = <<>>
    /\ request_count = 0
    /\ db_query_count = 0
    /\ response_times = <<>>
    /\ feed = 1
    /\ ThreadsIdle
    /\ DbEmpty
    /\ DefaultCosts

\* get: with self.lock:
ConcGetEnter(t, k) ==
    /\ pc[t] = "idle"
    /\ issued < MaxConcGets
    /\ CanAcquire(cacheLock, t)
    /\ cacheLock' = Acquire(cacheLock, t)
    /\ loc' = [loc EXCEPT ![t] = [NoLocals EXCEPT !.key = k]]
    /\ issued' = issued + 1
    /\ Goto(t, "get_check")
    /\ UNCHANGED <<capacity, cache, cache_hits, cache_misses, last, metricsLock,
                   returned, seqVars>>

\* get: if key in self.cache:
ConcGetCheck(t) ==
    /\ pc[t] = "get_check"
    /\ Goto(t, IF Contains(cache, loc[t].key) THEN "get_pop" ELSE "get_miss")
    /\ UNCHANGED <<capacity, cache, cache_hits, cache_misses, last, loc, cacheLock,
                   metricsLock, issued, returned, seqVars>>

\* get: value = self.cache.pop(key); KeyError when the key is gone
ConcGetPop(t) ==
    /\ pc[t] = "get_pop"
    /\ IF Contains(cache, loc[t].key)
       THEN /\ cache' = OdPop(cache, loc[t].key)
            /\ loc' = [loc EXCEPT ![t].value = Lookup(cache, loc[t].key)]
            /\ Goto(t, "get_store")
       ELSE /\ cache' = cache
            /\ loc' = [loc EXCEPT ![t].raised = TRUE]
            /\ Goto(t, "get_exit")
    /\ UNCHANGED <<capacity, cache_hits, cache_misses, last, cacheLock, metricsLock,
                   issued, returned, seqVars>>

\* get: self.cache[key] = value
ConcGetStore(t) ==
    /\ pc[t] = "get_store"
    /\ cache' = OdSetItem(cache, loc[t].key, loc[t].value)
    /\ Goto(t, "get_hit")
    /\ UNCHANGED <<capacity, cache_hits, cache_misses, last, loc, cacheLock,
                   metricsLock, issued, returned, seqVars>>

\* record_cache_hit / record_cache_miss: with self.lock:
ConcRecordEnter(t) ==
    /\ pc[t] \in {"get_hit", "get_miss"}
    /\ CanAcquire(metricsLock, t)
    /\ metricsLock' = Acquire(metricsLock, t)
    /\ Goto(t, IF pc[t] = "get_hit" THEN "hit_incr" ELSE "miss_incr")
    /\ UNCHANGED <<capacity, cache, cache_hits, cache_misses, last, loc, cacheLock,
                   issued, returned, seqVars>>

\* record_cache_hit: self.cache_hits += 1
ConcRecordCacheHit(t) ==
    /\ pc[t] = "hit_incr"
    /\ cache_hits' = cache_hits + 1
    /\ Goto(t, "record_exit")
    /\ UNCHANGED <<capacity, cache, cache_misses, last, loc, cacheLock, metricsLock,
                   issued, returned, seqVars>>

\* record_cache_miss: self.cache_misses += 1
ConcRecordCacheMiss(t) ==
    /\ pc[t] = "miss_incr"
    /\ cache_misses' = cache_misses + 1
    /\ Goto(t, "record_exit")
    /\ UNCHANGED <<capacity, cache, cache_hits, last, loc, cacheLock, metricsLock,
                   issued, returned, seqVars>>

\* record_cache_hit / record_cache_miss: the lock is released on return
ConcRecordExit(t) ==
    /\ pc[t] = "record_exit"
    /\ metricsLock' = Release(metricsLock)
    /\ Goto(t, "get_exit")
    /\ UNCHANGED <<capacity, cache, cache_hits, cache_misses, last, loc, cacheLock,
                   issued, returned, seqVars>>

\* get: return value / return None / KeyError leaves the with block
ConcGetExit(t) ==
    /\ pc[t] = "get_exit"
    /\ cacheLock' = Release(cacheLock)
    /\ returned' = returned + 1
    /\ last' = Call("get", loc[t].key, None, loc[t].value, loc[t].raised)
    /\ loc' = [loc EXCEPT ![t] = NoLocals]
    /\ Goto(t, "idle")
    /\ UNCHANGED <<capacity, cache, cache_hits, cache_misses, metricsLock, issued,
                   seqVars>>

\* put: with self.lock:
ConcPutEnter(t, k, v) ==
    /\ pc[t] = "idle"
    /\ CanAcquire(cacheLock, t)
    /\ cacheLock' = Acquire(cacheLock, t)
    /\ loc' = [loc EXCEPT ![t] = [NoLocals EXCEPT !.key = k, !.val = v]]
    /\ Goto(t, "put_check")
    /\ UNCHANGED <<capacity, cache, cache_hits, cache_misses, last, metricsLock,
                   issued, returned, seqVars>>

\* put: if key in self.cache: ... elif len(self.cache) >= self.capacity:
ConcPutCheck(t) ==
    /\ pc[t] = "put_check"
    /\ Goto(t, IF Contains(cache, loc[t].key) THEN "put_pop"
               ELSE IF AtCapacity(cache, capacity) THEN "put_evict"
               ELSE "put_store")
    /\ UNCHANGED <<capacity, cache, cache_hits, cache_misses, last, loc, cacheLock,
                   metricsLock, issued, returned, seqVars>>

\* put: self.cache.pop(key); KeyError when the key is gone
ConcPutPop(t) ==
    /\ pc[t] = "put_pop"
    /\ IF Contains(cache, loc[t].key)
       THEN /\ cache' = OdPop(cache, loc[t].key)
            /\ loc' = loc
            /\ Goto(t, "put_store")
       ELSE /\ cache' = cache
            /\ loc' = [loc EXCEPT ![t].raised = TRUE]
            /\ Goto(t, "put_exit")
    /\ UNCHANGED <<capacity, cache_hits, cache_misses, last, cacheLock, metricsLock,
                   issued, returned, seqVars>>

\* put: self.cache.popitem(last=False); KeyError when the dict is empty
ConcPutEvict(t) ==
    /\ pc[t] = "put_evict"
    /\ IF cache # <<>>
       THEN /\ cache' = OdPopFirst(cache)
            /\ loc' = loc
            /\ Goto(t, "put_store")
       ELSE /\ cache' = cache
            /\ loc' = [loc EXCEPT ![t].raised = TRUE]
            /\ Goto(t, "put_exit")
    /\ UNCHANGED <<capacity, cache_hits, cache_misses, last, cacheLock, metricsLock,
                   issued, returned, seqVars>>

\* put: self.cache[key] = value
ConcPutStore(t) ==
    /\ pc[t] = "put_store"
    /\ cache' = OdSetItem(cache, loc[t].key, loc[t].val)
    /\ Goto(t, "put_exit")
    /\ UNCHANGED <<capacity, cache_hits, cache_misses, last, loc, cacheLock,
                   metricsLock, issued, returned, seqVars>>

\* put: the with block is left, by its end or by KeyError
ConcPutExit(t) ==
    /\ pc[t] = "put_exit"
    /\ cacheLock' = Release(cacheLock)
    /\ last' = Call("put", loc[t].key, loc[t].val, None, loc[t].raised)
    /\ loc' = [loc EXCEPT ![t] = NoLocals]
    /\ Goto(t, "idle")
    /\ UNCHANGED <<capacity, cache, cache_hits, cache_misses, metricsLock, issued,
                   returned, seqVars>>

\* size: with self.lock:
ConcSizeEnter(t) ==
    /\ pc[t] = "idle"
    /\ CanAcquire(cacheLock, t)
    /\ cacheLock' = Acquire(cacheLock, t)
    /\ loc' = [loc EXCEPT ![t] = NoLocals]
    /\ Goto(t, "size_read")
    /\ UNCHANGED <<capacity, cache, cache_hits, cache_misses, last, metricsLock,
                   issued, returned, seqVars>>

\* size: len(self.cache)
ConcSizeRead(t) ==
    /\ pc[t] = "size_read"
    /\ loc' = [loc EXCEPT ![t].value = Size(cache)]
    /\ Goto(t, "size_exit")
    /\ UNCHANGED <<capacity, cache, cache_hits, cache_misses, last, cacheLock,
                   metricsLock, issued, returned, seqVars>>

\* size: return
ConcSizeExit(t) ==
    /\ pc[t] = "size_exit"
    /\ cacheLock' = Release(cacheLock)
    /\ last' = Call("size", NoKey, None, loc[t].value, FALSE)
    /\ loc' = [loc EXCEPT ![t] = NoLocals]
    /\ Goto(t, "idle")
    /\ UNCHANGED <<capacity, cache, cache_hits, cache_misses, metricsLock, issued,
                   returned, seqVars>>

NextConc ==
    \E t \in Threads :
        \/ \E k \in ConcKeys : ConcGetEnter(t, k)
        \/ ConcGetCheck(t)
        \/ ConcGetPop(t)
        \/ ConcGetStore(t)
        \/ ConcRecordEnter(t)
        \/ ConcRecordCacheHit(t)
        \/ ConcRecordCacheMiss(t)
        \/ ConcRecordExit(t)
        \/ ConcGetExit(t)
        \/ \E k \in ConcKeys, v \in ConcValues : ConcPutEnter(t, k, v)
        \/ ConcPutCheck(t)
        \/ ConcPutPop(t)
        \/ ConcPutEvict(t)
        \/ ConcPutStore(t)
        \/ ConcPutExit(t)
        \/ ConcSizeEnter(t)
        \/ ConcSizeRead(t)
        \/ ConcSizeExit(t)

SpecConc == InitConc /\ [][NextConc]_vars

\* ------------------------------------------------- SpecInval
\* The callers of SpecConc together with the invalidation of the handlers:
\* add_grade and the background task process_batch call
\* student_cache.cache.pop(key, None) on the dictionary itself.

\* add_grade / process_batch: the grades are committed, the key is built
ConcInvalidateEnter(t, k) ==
    /\ pc[t] = "idle"
    /\ loc' = [loc EXCEPT ![t] = [NoLocals EXCEPT !.key = k]]
    /\ Goto(t, "inv_pop")
    /\ UNCHANGED <<capacity, cache, cache_hits, cache_misses, last, cacheLock,
                   metricsLock, issued, returned, seqVars>>

\* student_cache.cache.pop(f"analytics:{id}", None): no lock is taken
ConcInvalidatePop(t) ==
    /\ pc[t] = "inv_pop"
    /\ cache' = OdPopDefault(cache, loc[t].key)
    /\ last' = Call("invalidate", loc[t].key, None, None, FALSE)
    /\ loc' = [loc EXCEPT ![t] = NoLocals]
    /\ Goto(t, "idle")
    /\ UNCHANGED <<capacity, cache_hits, cache_misses, cacheLock, metricsLock,
                   issued, returned, seqVars>>

NextInval ==
    \/ NextConc
    \/ \E t \in Threads, k \in ConcKeys : ConcInvalidateEnter(t, k)
    \/ \E t \in Threads : ConcInvalidatePop(t)

SpecInval == InitConc /\ [][NextInval]_vars

\* ------------------------------------------------- SpecMetricsConc
\* Threads calling the operations of the one shared SystemMetrics; a step is
\* one statement, and `+= 1` is a read followed by a write. The aggregator
\* has already recorded 0 or WindowMaxLen - 1 requests.
RecordOps == {"record_request", "record_db_query", "record_cache_hit",
              "record_cache_miss"}
ReadOps == {"get_cache_hit_rate", "get_avg_response_time",
            "get_requests_per_minute"}

\* The counter a recording operation increments
CounterOf(op) ==
    CASE op = "record_request" -> request_count
      [] op = "record_db_query" -> db_query_count
      [] op = "record_cache_hit" -> cache_hits
      [] op = "record_cache_miss" -> cache_misses

\* The value a read accessor computes
ReadOf(op) ==
    CASE op = "get_cache_hit_rate" -> GetCacheHitRate(cache_hits, cache_misses)
      [] op = "get_avg_response_time" -> GetAvgResponseTime(response_times)
      [] op = "get_requests_per_minute" -> GetRequestsPerMinute(response_times)

InitMetricsConc ==
    /\ capacity = MaxCap
    /\ cache = <<>>
    /\ before = <<>>
    /\ putRun = <<>>
    /\ cache_hits = 0
    /\ cache_misses = 0
    /\ db_query_count = 0
    /\ feed \in 1..NumFeeds
    /\ \E n \in {0, WindowMaxLen - 1} :
          /\ request_count = n
          /\ response_times = [i \in 1..n |-> Sample(feed, i)]
          /\ calls = [NoCalls EXCEPT !.record_request = n]
    /\ pc = [t \in Threads |-> "idle"]
    /\ loc = [t \in Threads |-> NoLocals]
    /\ cacheLock = FreeLock
    /\ metricsLock = FreeLock
    /\ issued = 0
    /\ returned = 0
    /\ DbEmpty
    /\ DefaultCosts
    /\ last = Call("init", NoKey, None, None, FALSE)

\* record_*: with self.lock:
MetricsRecordEnter(t, op) ==
    /\ pc[t] = "idle"
    /\ issued < MaxMetricsCalls
    /\ CanAcquire(metricsLock, t)
    /\ metricsLock' = Acquire(metricsLock, t)
    /\ loc' = [loc EXCEPT ![t] =
                  [NoLocals EXCEPT !.op = op,
                                   !.val = IF op = "record_request"
                                           THEN Sample(feed, issued + 1)
                                           ELSE None]]
    /\ issued' = issued + 1
    /\ Goto(t, "m_load")
    /\ UNCHANGED <<cacheVars, apiVars, cache_hits, cache_misses, metricVars, last, cacheLock,
                   returned, calls>>

\* self.<counter> += 1: the counter is read
MetricsLoad(t) ==
    /\ pc[t] = "m_load"
    /\ loc' = [loc EXCEPT ![t].value = CounterOf(loc[t].op)]
    /\ Goto(t, "m_store")
    /\ UNCHANGED <<cacheVars, apiVars, cache_hits, cache_misses, metricVars, last, cacheLock,
                   metricsLock, issued, returned, calls>>

\* self.<counter> += 1: the value read, plus one, is written
MetricsStore(t) ==
    /\ pc[t] = "m_store"
    /\ request_count' = IF loc[t].op = "record_request" THEN loc[t].value + 1
                        ELSE request_count
    /\ db_query_count' = IF loc[t].op = "record_db_query" THEN loc[t].value + 1
                         ELSE db_query_count
    /\ cache_hits' = IF loc[t].op = "record_cache_hit" THEN loc[t].value + 1
                     ELSE cache_hits
    /\ cache_misses' = IF loc[t].op = "record_cache_miss" THEN loc[t].value + 1
                       ELSE cache_misses
    /\ Goto(t, IF loc[t].op = "record_request" THEN "m_append" ELSE "m_exit")
    /\ UNCHANGED <<cacheVars, apiVars, response_times, feed, last, loc, cacheLock,
                   metricsLock, issued, returned, calls>>

\* record_request: self.response_times.append(response_time_ms)
MetricsAppend(t) ==
    /\ pc[t] = "m_append"
    /\ response_times' = DequeAppend(response_times, loc[t].val)
    /\ Goto(t, "m_exit")
    /\ UNCHANGED <<cacheVars, apiVars, cache_hits, cache_misses, request_count,
                   db_query_count, feed, last, loc, cacheLock, metricsLock, issued,
                   returned, calls>>

\* record_*: the with block ends and the call returns
MetricsRecordExit(t) ==
    /\ pc[t] = "m_exit"
    /\ metricsLock' = Release(metricsLock)
    /\ calls' = [calls EXCEPT ![loc[t].op] = @ + 1]
    /\ last' = Call(loc[t].op, NoKey, loc[t].val, None, FALSE)
    /\ loc' = [loc EXCEPT ![t] = NoLocals]
    /\ Goto(t, "idle")
    /\ UNCHANGED <<cacheVars, apiVars, cache_hits, cache_misses, metricVars, cacheLock,
                   issued, returned>>

\* get_*: with self.lock:
MetricsReadEnter(t, op) ==
    /\ pc[t] = "idle"
    /\ issued < MaxMetricsCalls
    /\ CanAcquire(metricsLock, t)
    /\ metricsLock' = Acquire(metricsLock, t)
    /\ loc' = [loc EXCEPT ![t] = [NoLocals EXCEPT !.op = op]]
    /\ issued' = issued + 1
    /\ Goto(t, "m_read")
    /\ UNCHANGED <<cacheVars, apiVars, cache_hits, cache_misses, metricVars, last, cacheLock,
                   returned, calls>>

\* get_*: the result is computed from the counters or the window
MetricsRead(t) ==
    /\ pc[t] = "m_read"
    /\ loc' = [loc EXCEPT ![t].value = ReadOf(loc[t].op)]
    /\ Goto(t, "m_return")
    /\ UNCHANGED <<cacheVars, apiVars, cache_hits, cache_misses, metricVars, last, cacheLock,
                   metricsLock, issued, returned, calls>>

\* get_*: return
MetricsReadExit(t) ==
    /\ pc[t] = "m_return"
    /\ metricsLock' = Release(metricsLock)
    /\ last' = Call(loc[t].op, NoKey, None, loc[t].value, FALSE)
    /\ loc' = [loc EXCEPT ![t] = NoLocals]
    /\ Goto(t, "idle")
    /\ UNCHANGED <<cacheVars, apiVars, cache_hits, cache_misses, metricVars, cacheLock,
                   issued, returned, calls>>

NextMetricsConc ==
    \E t \in Threads :
        \/ \E op \in RecordOps : MetricsRecordEnter(t, op)
        \/ MetricsLoad(t)
        \/ MetricsStore(t)
        \/ MetricsAppend(t)
        \/ MetricsRecordExit(t)
        \/ \E op \in ReadOps : MetricsReadEnter(t, op)
        \/ MetricsRead(t)
        \/ MetricsReadExit(t)

SpecMetricsConc == InitMetricsConc /\ [][NextMetricsConc]_vars

\* ------------------------------------------------------------ SpecLocks
\* Threads calling the cache and the aggregator side by side.  A call first
\* waits for the lock of its object and a step is one statement; a scheduled
\* thread that can take a step eventually takes it.
CacheOps == {"get", "put", "size"}
\* The aggregator calls the request layer makes beside the cache: the
\* middleware's record_request, get_db_connection's record_db_query and an
\* accessor (each accessor is one with self.lock: block around a read).
LockMetricsOps == {"record_request", "record_db_query", "get_requests_per_minute"}
\* Which key and value a caller passes has no part in the locking: one
\* key, present or absent, gives get both its hit branch and its miss branch.
LockKeys == {1}
LockValues == {1}

\* A caller reaches student_cache.get / put / size: with self.lock: is next
LockCallCache(t, op, k, v) ==
    /\ pc[t] = "idle"
    /\ issued < MaxLockCalls
    /\ loc' = [loc EXCEPT ![t] = [NoLocals EXCEPT !.op = op, !.key = k, !.val = v]]
    /\ issued' = issued + 1
    /\ Goto(t, "wait_cache")
    /\ UNCHANGED <<capacity, cache, cache_hits, cache_misses, last, cacheLock,
                   metricsLock, returned, seqVars>>

\* LRUCache: with self.lock: blocks until the lock is free
LockAcquireCache(t) ==
    /\ pc[t] = "wait_cache"
    /\ CanAcquire(cacheLock, t)
    /\ cacheLock' = Acquire(cacheLock, t)
    /\ Goto(t, CASE loc[t].op = "get" -> "get_check"
                 [] loc[t].op = "put" -> "put_check"
                 [] OTHER -> "size_read")
    /\ UNCHANGED <<capacity, cache, cache_hits, cache_misses, last, loc, metricsLock,
                   issued, returned, seqVars>>

\* A caller reaches metrics.record_* / metrics.get_*: with self.lock: is next
LockCallMetrics(t, op) ==
    /\ pc[t] = "idle"
    /\ issued < MaxLockCalls
    /\ loc' = [loc EXCEPT ![t] =
                  [NoLocals EXCEPT !.op = op,
                                   !.val = IF op = "record_request"
                                           THEN Sample(feed, issued + 1)
                                           ELSE None]]
    /\ issued' = issued + 1
    /\ Goto(t, "wait_metrics")
    /\ UNCHANGED <<capacity, cache, cache_hits, cache_misses, last, cacheLock,
                   metricsLock, returned, seqVars>>

\* SystemMetrics: with self.lock: blocks until the lock is free
LockAcquireMetrics(t) ==
    /\ pc[t] = "wait_metrics"
    /\ CanAcquire(metricsLock, t)
    /\ metricsLock' = Acquire(metricsLock, t)
    /\ Goto(t, IF loc[t].op \in RecordOps THEN "m_load" ELSE "m_read")
    /\ UNCHANGED <<capacity, cache, cache_hits, cache_misses, last, loc, cacheLock,
                   issued, returned, seqVars>>

\* The steps of a thread that is inside a call.
LockStep(t) ==
    \/ LockAcquireCache(t)
    \/ ConcGetCheck(t)
    \/ ConcGetPop(t)
    \/ ConcGetStore(t)
    \/ ConcRecordEnter(t)
    \/ ConcRecordCacheHit(t)
    \/ ConcRecordCacheMiss(t)
    \/ ConcRecordExit(t)
    \/ ConcGetExit(t)
    \/ ConcPutCheck(t)
    \/ ConcPutPop(t)
    \/ ConcPutEvict(t)
    \/ ConcPutStore(t)
    \/ ConcPutExit(t)
    \/ ConcSizeRead(t)
    \/ ConcSizeExit(t)
    \/ LockAcquireMetrics(t)
    \/ MetricsLoad(t)
    \/ MetricsStore(t)
    \/ MetricsAppend(t)
    \/ MetricsRecordExit(t)
    \/ MetricsRead(t)
    \/ MetricsReadExit(t)

LockCall(t) ==
    \/ \E k \in LockKeys : LockCallCache(t, "get", k, None)
    \/ \E k \in LockKeys, v \in LockValues : LockCallCache(t, "put", k, v)
    \/ LockCallCache(t, "size", NoKey, None)
    \/ \E op \in LockMetricsOps : LockCallMetrics(t, op)

NextLocks == \E t \in Threads : LockCall(t) \/ LockStep(t)

SpecLocks ==
    /\ InitConc
    /\ [][NextLocks]_vars
    /\ \A t \in Threads : WF_vars(LockStep(t))

\* ------------------------------------------------------------ SpecApi
\* The HTTP handlers of students, grades and analytics on the one cache and
\* the one database. A handler is `async def` and awaits nothing, so the
\* event loop runs its body without interruption; the record_request of the
\* monitoring middleware is taken with it. An exception that is not an
\* HTTPException leaves the handler and call_next, so the middleware records
\* nothing and the client gets a 500.
ApiCapacities == 0..MaxApiCap
Scores == 1..MaxValue

\* f"student:{student_id}"
StudentKey(s) == <<"student", s>>

\* f"analytics:{student_id}"
AnalyticsKey(s) == <<"analytics", s>>

\* student.dict(): the fields of the request body
StudentModel(s) == [student_id |-> s, name |-> s, email |-> s, grade_level |-> 1]

\* get_student: the dictionary built from the row, created_at included
StudentRow(s) == [student_id |-> s, name |-> s, email |-> s, grade_level |-> 1,
                  created_at |-> "CURRENT_TIMESTAMP"]

\* max(scores) and min(scores)
MaxOf(scores) == CHOOSE x \in {scores[i] : i \in DOMAIN scores} :
                     \A i \in DOMAIN scores : scores[i] <= x
MinOf(scores) == CHOOSE x \in {scores[i] : i \in DOMAIN scores} :
                     \A i \in DOMAIN scores : x <= scores[i]

\* round(mean(scores), 2), in hundredths; a tie goes to the even neighbour
RoundedMean(scores) ==
    LET n == Len(scores)
        q == (100 * SumSeq(scores)) \div n
        r == (100 * SumSeq(scores)) % n
    IN  IF 2 * r > n \/ (2 * r = n /\ q % 2 = 1) THEN q + 1 ELSE q

\* StudentAnalytics(...).dict() of the grades read from the database
Analytics(s, scores) ==
    [student_id |-> s, student_name |-> s, total_grades |-> Len(scores),
     average_score |-> RoundedMean(scores), highest_score |-> MaxOf(scores),
     lowest_score |-> MinOf(scores)]

\* An HTTPException: the status code is the response
HttpError(op, s, status) == Call(op, s, None, status, TRUE)

\* A 200 response with its body
HttpOk(op, s, body) == Call(op, s, None, body, FALSE)

\* An exception no handler catches: 500
ServerError(op, s) == Call(op, s, None, 500, TRUE)

InitApi ==
    /\ \E cap \in ApiCapacities :
          LET obj == LRUCacheInit(cap)
          IN  /\ capacity = obj.capacity
              /\ cache = obj.cache
    /\ last = Call("init", NoKey, None, None, FALSE)
    /\ cache_hits = 0
    /\ cache_misses = 0
    /\ before = <<>>
    /\ putRun = <<>>
    /\ request_count = 0
    /\ db_query_count = 0
    /\ response_times = <<>>
    /\ feed = 1
    /\ ThreadsIdle
    /\ DbEmpty
    /\ DefaultCosts

\* monitoring_middleware: metrics.record_request(response_time_ms)
MonitoringMiddleware(failed) ==
    /\ request_count < MaxApiRequests
    /\ db_query_count < MaxApiRequests
    /\ IF failed
       THEN UNCHANGED <<request_count, response_times>>
       ELSE /\ request_count' = request_count + 1
            /\ response_times' =
                   DequeAppend(response_times, Sample(feed, request_count + 1))
    /\ feed' = feed

\* POST /students
CreateStudent(s) ==
    LET put == PutResult(cache, capacity, StudentKey(s), StudentModel(s))
        failed == s \notin students /\ put.raised
    IN  /\ MonitoringMiddleware(failed)
        /\ db_query_count' = db_query_count + 1
        /\ IF s \in students
           THEN /\ last' = HttpError("create_student", s, 400)
                /\ UNCHANGED <<students, cache>>
           ELSE /\ students' = students \cup {s}
                /\ cache' = put.cache
                /\ last' = IF put.raised THEN ServerError("create_student", s)
                           ELSE HttpOk("create_student", s,
                                       "Student created successfully")
        /\ before' = cache
        /\ UNCHANGED <<capacity, putRun, cache_hits, cache_misses, grades, seen, pc,
                       loc, cacheLock, metricsLock, issued, returned, calls, cost,
                       access>>

\* GET /students/{student_id}
GetStudent(s) ==
    LET res == GetResult(cache, StudentKey(s))
        put == PutResult(res.cache, capacity, StudentKey(s), StudentRow(s))
        failed == ~res.hit /\ s \in students /\ put.raised
    IN  /\ MonitoringMiddleware(failed)
        /\ IF res.hit
           THEN /\ cache_hits' = cache_hits + 1
                /\ cache' = res.cache
                /\ last' = HttpOk("get_student", s, res.ret)
                /\ seen' = [seen EXCEPT ![s] = <<res.ret>>]
                /\ UNCHANGED <<cache_misses, db_query_count>>
           ELSE /\ cache_misses' = cache_misses + 1
                /\ db_query_count' = db_query_count + 1
                /\ IF s \in students
                   THEN /\ cache' = put.cache
                        /\ last' = IF put.raised THEN ServerError("get_student", s)
                                   ELSE HttpOk("get_student", s, StudentRow(s))
                        /\ seen' = IF put.raised THEN seen
                                   ELSE [seen EXCEPT ![s] = <<StudentRow(s)>>]
                   ELSE /\ cache' = res.cache
                        /\ last' = HttpError("get_student", s, 404)
                        /\ seen' = seen
                /\ cache_hits' = cache_hits
        /\ before' = cache
        /\ UNCHANGED <<capacity, putRun, students, grades, pc, loc, cacheLock,
                       metricsLock, issued, returned, calls, cost,
                       access>>

\* Faulty variant: the grade is stored and the cache is left as it is.
AddGradeKeepingCache(s, score) ==
    /\ MonitoringMiddleware(FALSE)
    /\ db_query_count' = db_query_count + 1
    /\ IF s \in students
       THEN /\ grades' = [grades EXCEPT ![s] = Append(@, score)]
            /\ last' = HttpOk("add_grade", s, "Grade added successfully")
       ELSE /\ last' = HttpError("add_grade", s, 404)
            /\ grades' = grades
    /\ before' = cache
    /\ UNCHANGED <<capacity, cache, putRun, cache_hits, cache_misses, students, seen,
                   pc, loc, cacheLock, metricsLock, issued, returned, calls, cost,
                       access>>

\* POST /grades
AddGrade(s, score) ==
    /\ MonitoringMiddleware(FALSE)
    /\ db_query_count' = db_query_count + 1
    /\ IF s \in students
       THEN /\ grades' = [grades EXCEPT ![s] = Append(@, score)]
            /\ cache' = OdPopDefault(cache, AnalyticsKey(s))
            /\ last' = HttpOk("add_grade", s, "Grade added successfully")
       ELSE /\ last' = HttpError("add_grade", s, 404)
            /\ UNCHANGED <<grades, cache>>
    /\ before' = cache
    /\ UNCHANGED <<capacity, putRun, cache_hits, cache_misses, students, seen, pc, loc,
                   cacheLock, metricsLock, issued, returned, calls, cost,
                       access>>

\* GET /analytics/student/{student_id}
GetStudentAnalytics(s) ==
    LET res == GetResult(cache, AnalyticsKey(s))
        found == s \in students /\ grades[s] # <<>>
        put == PutResult(res.cache, capacity, AnalyticsKey(s), Analytics(s, grades[s]))
        failed == ~res.hit /\ found /\ put.raised
    IN  /\ MonitoringMiddleware(failed)
        /\ IF res.hit
           THEN /\ cache_hits' = cache_hits + 1
                /\ cache' = res.cache
                /\ last' = HttpOk("get_student_analytics", s, res.ret)
                /\ UNCHANGED <<cache_misses, db_query_count>>
           ELSE /\ cache_misses' = cache_misses + 1
                /\ db_query_count' = db_query_count + 1
                /\ IF found
                   THEN /\ cache' = put.cache
                        /\ last' = IF put.raised
                                   THEN ServerError("get_student_analytics", s)
                                   ELSE HttpOk("get_student_analytics", s,
                                               Analytics(s, grades[s]))
                   ELSE /\ cache' = res.cache
                        /\ last' = HttpError("get_student_analytics", s, 404)
                /\ cache_hits' = cache_hits
        /\ before' = cache
        /\ UNCHANGED <<capacity, putRun, students, grades, seen, pc, loc, cacheLock,
                       metricsLock, issued, returned, calls, cost,
                       access>>

NextApi ==
    \/ \E s \in StudentIds : CreateStudent(s)
    \/ \E s \in StudentIds : GetStudent(s)
    \/ \E s \in StudentIds, score \in Scores : AddGrade(s, score)
    \/ \E s \in StudentIds : GetStudentAnalytics(s)

SpecApi == InitApi /\ [][NextApi]_vars

\* ------------------------------------------------------------ SpecBatch
\* GET /analytics/student/{id} beside the background task of /grades/batch.
\* A handler is an async function without an await: handlers run one at a
\* time on the event loop.  process_batch is a plain function, which the
\* framework runs in a worker thread after the response of /grades/batch: its
\* statements interleave with those of a handler.  A batch is one grade.
HandlerLabels == {"an_read", "an_put"}
NoHandler == \A u \in Threads : pc[u] \notin HandlerLabels

batchFixed == <<capacity, putRun, cacheLock, metricsLock, returned, calls, students,
                seen, cost, access>>

\* The database of an earlier run: every student has one grade; the cache of
\* the new process is empty.
InitBatch ==
    /\ \E cap \in ApiCapacities :
          LET obj == LRUCacheInit(cap)
          IN  /\ capacity = obj.capacity
              /\ cache = obj.cache
    /\ last = Call("init", NoKey, None, None, FALSE)
    /\ cache_hits = 0
    /\ cache_misses = 0
    /\ before = <<>>
    /\ putRun = <<>>
    /\ request_count = 0
    /\ db_query_count = 0
    /\ response_times = <<>>
    /\ feed = 1
    /\ ThreadsIdle
    /\ students = StudentIds
    /\ grades = [s \in StudentIds |-> <<1>>]
    /\ seen = [s \in StudentIds |-> <<>>]
    /\ access = NoAccess
    /\ DefaultCosts

\* POST /grades/batch: background_tasks.add_task(process_batch), then the
\* response; worker thread t is given the task
AddGradesBatch(t, s, score) ==
    /\ pc[t] = "idle"
    /\ NoHandler
    /\ issued < MaxBatches
    /\ MonitoringMiddleware(FALSE)
    /\ loc' = [loc EXCEPT ![t] = [NoLocals EXCEPT !.op = "process_batch", !.key = s,
                                                  !.val = score]]
    /\ issued' = issued + 1
    /\ Goto(t, "batch_connect")
    /\ last' = HttpOk("add_grades_batch", s, "queued")
    /\ UNCHANGED <<cache, cache_hits, cache_misses, before, db_query_count, grades,
                   batchFixed>>

\* process_batch: conn = get_db_connection()
BatchConnect(t) ==
    /\ pc[t] = "batch_connect"
    /\ db_query_count' = db_query_count + 1
    /\ Goto(t, "batch_commit")
    /\ UNCHANGED <<cache, cache_hits, cache_misses, before, last, loc, issued, grades,
                   request_count, response_times, feed, batchFixed>>

\* process_batch: cursor.executemany(INSERT ...); conn.commit()
BatchCommit(t) ==
    /\ pc[t] = "batch_commit"
    /\ grades' = [grades EXCEPT ![loc[t].key] = Append(@, loc[t].val)]
    /\ Goto(t, "batch_pop")
    /\ UNCHANGED <<cache, cache_hits, cache_misses, before, last, loc, issued,
                   db_query_count, request_count, response_times, feed, batchFixed>>

\* process_batch: student_cache.cache.pop(f"analytics:{id}", None); conn.close()
BatchPop(t) ==
    /\ pc[t] = "batch_pop"
    /\ cache' = OdPopDefault(cache, AnalyticsKey(loc[t].key))
    /\ before' = cache
    /\ loc' = [loc EXCEPT ![t] = NoLocals]
    /\ Goto(t, "idle")
    /\ UNCHANGED <<cache_hits, cache_misses, last, issued, grades, db_query_count,
                   request_count, response_times, feed, batchFixed>>

\* get_student_analytics: student_cache.get(cache_key); a hit is the response
AnalyticsGet(t, s) ==
    LET res == GetResult(cache, AnalyticsKey(s))
    IN  /\ pc[t] = "idle"
        /\ NoHandler
        /\ request_count < MaxApiRequests
        /\ db_query_count < MaxApiRequests
        /\ cache' = res.cache
        /\ before' = cache
        /\ IF res.hit
           THEN /\ MonitoringMiddleware(FALSE)
                /\ cache_hits' = cache_hits + 1
                /\ last' = HttpOk("get_student_analytics", s, res.ret)
                /\ UNCHANGED <<cache_misses, pc, loc>>
           ELSE /\ cache_misses' = cache_misses + 1
                /\ loc' = [loc EXCEPT ![t] = [NoLocals EXCEPT !.op = "get_student_analytics",
                                                              !.key = s]]
                /\ Goto(t, "an_read")
                /\ UNCHANGED <<cache_hits, last, request_count, response_times, feed>>
        /\ UNCHANGED <<issued, grades, db_query_count, batchFixed>>

\* get_student_analytics: get_db_connection(), the two SELECTs, conn.close();
\* 404 without the student or without grades
AnalyticsRead(t) ==
    LET s == loc[t].key
        found == s \in students /\ grades[s] # <<>>
    IN  /\ pc[t] = "an_read"
        /\ db_query_count' = db_query_count + 1
        /\ IF found
           THEN /\ loc' = [loc EXCEPT ![t].value = grades[s]]
                /\ Goto(t, "an_put")
                /\ UNCHANGED <<last, request_count, response_times, feed>>
           ELSE /\ MonitoringMiddleware(FALSE)
                /\ last' = HttpError("get_student_analytics", s, 404)
                /\ loc' = [loc EXCEPT ![t] = NoLocals]
                /\ Goto(t, "idle")
        /\ UNCHANGED <<cache, cache_hits, cache_misses, before, issued, grades,
                       batchFixed>>

\* get_student_analytics: the analytics of the rows read are put into the
\* cache and returned
AnalyticsPut(t) ==
    LET s == loc[t].key
        analytics == Analytics(s, loc[t].value)
        put == PutResult(cache, capacity, AnalyticsKey(s), analytics)
    IN  /\ pc[t] = "an_put"
        /\ MonitoringMiddleware(put.raised)
        /\ cache' = put.cache
        /\ before' = cache
        /\ last' = IF put.raised THEN ServerError("get_student_analytics", s)
                   ELSE HttpOk("get_student_analytics", s, analytics)
        /\ loc' = [loc EXCEPT ![t] = NoLocals]
        /\ Goto(t, "idle")
        /\ UNCHANGED <<cache_hits, cache_misses, issued, grades, db_query_count,
                       batchFixed>>

NextBatch ==
    \E t \in Threads :
        \/ \E s \in StudentIds, score \in Scores : AddGradesBatch(t, s, score)
        \/ BatchConnect(t)
        \/ BatchCommit(t)
        \/ BatchPop(t)
        \/ \E s \in StudentIds : AnalyticsGet(t, s)
        \/ AnalyticsRead(t)
        \/ AnalyticsPut(t)

SpecBatch == InitBatch /\ [][NextBatch]_vars

\* ------------------------------------------------------------ SpecCosts
\* GET /costs/current between calls of record_request and record_db_query.
\* The two prices come from the environment; they are kept in units of 1e-7
\* dollars, a cost in units of 1e-9 dollars and a rounded cost in units of
\* 1e-6 dollars. No cost of these settings lies half way between two
\* multiples of 1e-6, where the result would depend on the float.
CostSettings == {[per_db_query |-> 1000, per_100_api_calls |-> 10000],
                 [per_db_query |-> 4, per_100_api_calls |-> 400]}

\* metrics.db_query_count * COST_PER_DB_QUERY
DbCost(queries, c) == queries * c.per_db_query * 100

\* Faulty variant: the division by 100 is forgotten.
ApiCostPerCall(requests, c) == requests * c.per_100_api_calls * 100

\* (metrics.request_count / 100) * COST_PER_100_API_CALLS
ApiCost(requests, c) == requests * c.per_100_api_calls

\* round(x, 6)
Round6(x) ==
    LET q == x \div 1000
        r == x % 1000
    IN  IF 2 * r > 1000 \/ (2 * r = 1000 /\ q % 2 = 1) THEN q + 1 ELSE q

\* get_current_costs: the session_costs of the response
SessionCosts(queries, requests, c) ==
    LET db_cost == DbCost(queries, c)
        api_cost == ApiCost(requests, c)
        total_cost == db_cost + api_cost
    IN  [database_queries |-> [count |-> queries, total_cost |-> Round6(db_cost)],
         api_requests |-> [count |-> requests, total_cost |-> Round6(api_cost)],
         total_session_cost |-> Round6(total_cost)]

InitCosts ==
    /\ capacity = MaxCap
    /\ cache = <<>>
    /\ before = <<>>
    /\ putRun = <<>>
    /\ cache_hits = 0
    /\ cache_misses = 0
    /\ request_count = 0
    /\ db_query_count = 0
    /\ response_times = <<>>
    /\ feed = 1
    /\ ThreadsIdle
    /\ DbEmpty
    /\ cost \in CostSettings
    /\ last = Call("init", NoKey, None, None, FALSE)

\* GET /costs/current
GetCurrentCosts ==
    /\ last' = Call("get_current_costs", NoKey, None,
                    SessionCosts(db_query_count, request_count, cost), FALSE)
    /\ UNCHANGED <<cacheVars, cache_hits, cache_misses, metricVars, threadVars>>

NextCosts ==
    \/ RecordRequest
    \/ RecordDbQuery
    \/ GetCurrentCosts

SpecCosts == InitCosts /\ [][NextCosts]_vars

\* ---------------------------------------------------------- SpecRecency
\* The calls of Spec, numbered: `access` keeps the number of calls made and,
\* for each key, the number of the call that last accessed it.
RecencyValues == {1}

\* The key k is accessed by the call that is being made.
Touch(k) == [clock |-> access.clock + 1,
             stamp |-> [access.stamp EXCEPT ![k] = access.clock + 1]]

\* The call that is being made accesses no key.
NoTouch == [access EXCEPT !.clock = access.clock + 1]

\* student_cache.put(key, value)
RecencyPut(k, v) ==
    LET res == PutResult(cache, capacity, k, v)
    IN  /\ access.clock < MaxCalls
        /\ cache' = res.cache
        /\ last' = Call("put", k, v, None, res.raised)
        /\ before' = cache
        /\ access' = IF res.raised THEN NoTouch ELSE Touch(k)
        /\ UNCHANGED <<capacity, putRun, cache_hits, cache_misses, metricVars, pc, loc,
                       cacheLock, metricsLock, issued, returned, calls, students,
                       grades, seen, cost>>

\* student_cache.get(key)
RecencyGet(k) ==
    LET res == GetResult(cache, k)
    IN  /\ access.clock < MaxCalls
        /\ cache' = res.cache
        /\ cache_hits' = IF res.hit THEN cache_hits + 1 ELSE cache_hits
        /\ cache_misses' = IF res.hit THEN cache_misses ELSE cache_misses + 1
        /\ last' = Call("get", k, None, res.ret, FALSE)
        /\ before' = cache
        /\ access' = IF res.hit THEN Touch(k) ELSE NoTouch
        /\ UNCHANGED <<capacity, putRun, metricVars, pc, loc, cacheLock, metricsLock,
                       issued, returned, calls, students, grades, seen, cost>>

\* student_cache.cache.pop(key, None)
RecencyInvalidate(k) ==
    /\ access.clock < MaxCalls
    /\ cache' = OdPopDefault(cache, k)
    /\ last' = Call("invalidate", k, None, None, FALSE)
    /\ before' = cache
    /\ access' = NoTouch
    /\ UNCHANGED <<capacity, putRun, cache_hits, cache_misses, metricVars, pc, loc,
                   cacheLock, metricsLock, issued, returned, calls, students, grades,
                   seen, cost>>

NextRecency ==
    \/ \E k \in Keys, v \in RecencyValues : RecencyPut(k, v)
    \/ \E k \in Keys : RecencyGet(k)
    \/ \E k \in Keys : RecencyInvalidate(k)

SpecRecency == Init /\ [][NextRecency]_vars

\* ------------------------------------------------------------ SpecAlerts
\* check_alerts beside the aggregator's recording calls.  The resident memory
\* is the process's own: whether it is above ALERT_MEMORY_MB is an input.

\* list(metrics.response_times)[-3:]
RecentTimes(times) ==
    IF Len(times) >= 3 THEN SubSeq(times, Len(times) - 2, Len(times)) ELSE times

\* Faulty variant: a sample at the threshold counts as above it.
AllAboveOrAt(q, threshold) == \A i \in DOMAIN q : q[i] >= threshold

\* all(t > ALERT_RESPONSE_TIME_MS for t in recent_times)
AllAbove(q, threshold) == \A i \in DOMAIN q : q[i] > threshold

\* check_alerts: the response-time condition
HighResponseTime(times) ==
    /\ Len(times) >= 3
    /\ AllAbove(RecentTimes(times), ALERT_RESPONSE_TIME_MS)

\* check_alerts: the hit-rate condition
LowCacheHitRate(hits, misses) ==
    LET rate == GetCacheHitRate(hits, misses)
    IN  /\ rate.num * 100 < ALERT_CACHE_HIT_RATE * rate.den
        /\ hits + misses > 10

\* check_alerts: the alerts list, which is what the call appends to alert.log
AlertList(times, hits, misses, memory_high) ==
    (IF HighResponseTime(times) THEN <<"High response time">> ELSE <<>>)
    \o (IF LowCacheHitRate(hits, misses) THEN <<"Low cache hit rate">> ELSE <<>>)
    \o (IF memory_high THEN <<"High memory usage">> ELSE <<>>)

\* check_alerts()
CheckAlerts(memory_high) ==
    /\ last' = Call("check_alerts", NoKey, None,
                    AlertList(response_times, cache_hits, cache_misses, memory_high),
                    FALSE)
    /\ UNCHANGED <<cacheVars, cache_hits, cache_misses, metricVars, threadVars>>

NextAlerts ==
    \/ RecordRequest
    \/ RecordCacheHit
    \/ RecordCacheMiss
    \/ \E memory_high \in BOOLEAN : CheckAlerts(memory_high)

SpecAlerts == InitMetrics /\ [][NextAlerts]_vars

\* ------------------------------------------------------------ claims
\* C1: with capacity N >= 1, size() <= N after every call of any sequence of
\* put and get calls.
C1_CapacityInvariant == capacity >= 1 => Size(cache) <= capacity

\* C1 witness: a put of a new key into a full cache has just evicted.
C1_Witness ==
    /\ capacity >= 1
    /\ last.op = "put"
    /\ Len(before) = capacity
    /\ ~Contains(before, last.key)
    /\ Size(cache) = capacity

\* C2: after N + 1 consecutive puts of distinct keys k1..k(N+1) into a cache
\* of capacity N, get(k1) misses, k2..k(N+1) are all present and size() = N.
C2_EvictionOrder ==
    (capacity >= 1 /\ Len(putRun) >= capacity + 1) =>
        LET run == RunTail(putRun, capacity + 1)
        IN  /\ ~GetResult(cache, run[1]).hit
            /\ GetResult(cache, run[1]).ret = None
            /\ \A i \in 2..(capacity + 1) : GetResult(cache, run[i]).hit
            /\ Size(cache) = capacity

\* C2 witness: MaxCap + 1 distinct keys have just been put into a cache of
\* capacity MaxCap.
C2_Witness ==
    /\ capacity = MaxCap
    /\ Len(putRun) = capacity + 1
    /\ last.op = "put"

\* The step C3 is about: the cache was full with k1..kN in recency order
\* (before), the last call was get(k1), and this step puts a key that is new.
C3_Step ==
    /\ last.op = "get"
    /\ Len(before) = capacity
    /\ last.key = before[1].key
    /\ last'.op = "put"
    /\ ~Contains(cache, last'.key)
    /\ before' = cache

\* k2 of the claim: the second inserted key; with N = 1 it is k(N+1), the key
\* being put.
C3_K2 == IF Len(before) >= 2 THEN before[2].key ELSE last'.key

C3_Outcome ==
    /\ GetResult(cache', before[1].key).hit
    /\ GetResult(cache', before[1].key).ret = Lookup(before, before[1].key)
    /\ ~GetResult(cache', C3_K2).hit
    /\ \A i \in 3..Len(before) :
          /\ GetResult(cache', before[i].key).hit
          /\ GetResult(cache', before[i].key).ret = before[i].value
    /\ Len(before) >= 2 =>
          /\ GetResult(cache', last'.key).hit
          /\ GetResult(cache', last'.key).ret = last'.val

\* C3 as stated: at every capacity N >= 1, get(k1) on the full cache k1..kN
\* followed by the put of a new key leaves k1 present and evicts k2.
C3_Original == [][(capacity >= 1 /\ C3_Step) => C3_Outcome]_vars

\* C3 amended: the same at every capacity N >= 2; the new key and k3..kN are
\* present with their values, k1 keeps its value, k2 is gone.
C3_PromotionOnHit == [][(capacity >= 2 /\ C3_Step) => C3_Outcome]_vars

\* C3 witness: get(k1) has just hit on a full cache of capacity >= 2 and a
\* key that is not in the cache is there to be put.
C3_Witness ==
    /\ capacity >= 2
    /\ last.op = "get"
    /\ Len(before) = capacity
    /\ last.key = before[1].key
    /\ cache_hits = 1
    /\ cache[Len(cache)].key = last.key
    /\ \E k \in Keys : ~Contains(cache, k)

\* C4: a put on a key that is present in a full cache removes no other entry
\* and leaves size() unchanged; a get of that key then returns the new value.
C4_OverwriteDoesNotEvict ==
    (last.op = "put" /\ Contains(before, last.key) /\ Len(before) = capacity) =>
        /\ KeysOf(cache) = KeysOf(before)
        /\ Size(cache) = Size(before)
        /\ \A k \in KeysOf(before) \ {last.key} : Lookup(cache, k) = Lookup(before, k)
        /\ GetResult(cache, last.key).hit
        /\ GetResult(cache, last.key).ret = last.val

\* C4 witness: a full cache of two or more entries, one of them just
\* overwritten with a different value while it was not the most recent.
C4_Witness ==
    /\ last.op = "put"
    /\ capacity >= 2
    /\ Len(before) = capacity
    /\ Contains(before, last.key)
    /\ before[Len(before)].key # last.key
    /\ Lookup(before, last.key) # last.val

\* The get calls in flight that have already reported to the aggregator.
C5_Reported ==
    {t \in Threads : pc[t] = "record_exit" \/ (pc[t] = "get_exit" /\ ~loc[t].raised)}

\* C5: under any interleaving of threads calling get and put, every get
\* records exactly one hit or one miss (the recorded hits and misses are the
\* gets that have returned plus those in flight past their report, and all
\* the gets issued once every thread is idle), and the cache never holds more
\* than capacity entries.
C5_ConcurrentCounts ==
    /\ cache_hits + cache_misses = returned + Cardinality(C5_Reported)
    /\ (\A t \in Threads : pc[t] = "idle") => cache_hits + cache_misses = issued
    /\ cache_hits + cache_misses <= issued
    /\ capacity >= 1 => Size(cache) <= capacity

\* C5 witness: two gets, one a hit and one a miss, have returned while
\* another thread is between the eviction and the insertion of its put.
C5_Witness ==
    /\ cache_hits = 1
    /\ cache_misses = 1
    /\ returned = 2
    /\ \E t \in Threads : pc[t] = "put_store" /\ Len(cache) < capacity

\* A step that is a call of get: it is the only call that moves a counter.
C6_GetStep ==
    /\ last'.op = "get"
    /\ cache_hits' + cache_misses' # cache_hits + cache_misses

\* C6: get returns the stored value and records one hit when the key is
\* present, returns None and records one miss when it is absent, and the
\* result tells a hit from a miss whatever value is stored.
C6_GetContract ==
    [][C6_GetStep =>
        /\ Contains(cache, last'.key) =>
              /\ last'.ret = Lookup(cache, last'.key)
              /\ cache_hits' = cache_hits + 1
              /\ cache_misses' = cache_misses
        /\ ~Contains(cache, last'.key) =>
              /\ last'.ret = None
              /\ cache_hits' = cache_hits
              /\ cache_misses' = cache_misses + 1
        /\ (last'.ret = None) <=> ~Contains(cache, last'.key)]_vars

\* C7: get_cache_hit_rate() is within [0,1], is 0.0 when nothing was recorded
\* and is cache_hits / (cache_hits + cache_misses) otherwise, for the counters
\* at the moment of the call.
C7_HitRate ==
    last.op = "get_cache_hit_rate" =>
        /\ last.ret.den > 0
        /\ 0 <= last.ret.num
        /\ last.ret.num <= last.ret.den
        /\ cache_hits + cache_misses = 0 => last.ret.num = 0
        /\ cache_hits + cache_misses > 0 =>
              last.ret.num * (cache_hits + cache_misses) = cache_hits * last.ret.den

\* C7 witness: the rate was read with hits and misses both recorded.
C7_Witness ==
    /\ last.op = "get_cache_hit_rate"
    /\ cache_hits >= 2
    /\ cache_misses >= 1

\* The window the claim expects after n record_request calls: the last
\* min(n, 100) samples of the stream, oldest first.
C8_Retained(n) ==
    LET m == IF n < WindowMaxLen THEN n ELSE WindowMaxLen
    IN  [i \in 1..m |-> Sample(feed, n - m + i)]

RECURSIVE C8_StreamSum(_, _)
C8_StreamSum(from, to) ==
    IF from > to THEN 0 ELSE Sample(feed, from) + C8_StreamSum(from + 1, to)

\* C8: after n record_request calls the window holds exactly the most recent
\* min(n, 100) samples in insertion order; get_requests_per_minute() is their
\* number, never above 100; get_avg_response_time() is their mean, 0.0 when
\* there are none.
C8_ResponseTimeWindow ==
    LET n == request_count
        m == IF n < WindowMaxLen THEN n ELSE WindowMaxLen
    IN  /\ response_times = C8_Retained(n)
        /\ last.op = "get_requests_per_minute" =>
              /\ last.ret <= WindowMaxLen
              /\ last.ret = m
        /\ last.op = "get_avg_response_time" =>
              /\ last.ret.den > 0
              /\ m = 0 => last.ret.num = 0
              /\ m > 0 => last.ret.num * m = C8_StreamSum(n - m + 1, n) * last.ret.den

\* C8 witness: the average was read after more than 100 samples, the oldest
\* of them no longer retained.
C8_Witness ==
    /\ last.op = "get_avg_response_time"
    /\ request_count > WindowMaxLen
    /\ Len(response_times) = WindowMaxLen
    /\ response_times[1] # Sample(feed, 1)

\* C9: no cache object with a capacity <= 0 exists (every state of the model
\* holds a constructed cache).
C9_NonPositiveCapacityRejected == capacity >= 1

\* C10: no call of get, put or size on a constructed cache raises.
C10_NoCallRaises == last.op \in {"get", "put", "size"} => ~last.raised

\* C11: every operation that changes the cache (put, the promoting get, the
\* invalidation of a key) runs while its thread holds the cache's lock: the
\* thread whose statement changes the dictionary is the owner of the lock, so
\* no two mutations overlap.
C11_MutationsHoldLock ==
    [][\A t \in Threads :
          (pc'[t] # pc[t] /\ cache' # cache) => cacheLock.owner = t]_vars

\* The statements of get, put and size that read the dictionary.
ObservingLabels == {"get_check", "get_pop", "put_check", "put_pop", "put_evict",
                    "size_read"}

\* C12: among get and put callers a get that hits promotes the key and records
\* the hit as one atomic step: while the key is popped and not yet stored
\* again no other caller is at a statement that reads the dictionary, the pop
\* of the promotion never fails, and while the hit is being counted the key
\* is present, as the most recent entry.
C12_AtomicPromotion ==
    \A t \in Threads :
        /\ pc[t] = "get_store" =>
               \A u \in Threads \ {t} : pc[u] \notin ObservingLabels
        /\ pc[t] \in {"get_hit", "hit_incr"} =>
               /\ Contains(cache, loc[t].key)
               /\ cache[Len(cache)].key = loc[t].key
        /\ pc[t] = "get_exit" => ~loc[t].raised

\* C12 witness: a get is in the middle of its promotion, its key popped and
\* not yet stored again, after another call has returned.
C12_Witness ==
    \E t \in Threads :
        /\ pc[t] = "get_store"
        /\ ~Contains(cache, loc[t].key)
        /\ last.op \in {"get", "put"}

\* C13: while puts run concurrently, a size() call never reads or returns a
\* value above the capacity (capacity N >= 1, as in C1), and the dictionary
\* is at no moment larger than the capacity.
C13_SizeReaderWithinCapacity ==
    capacity >= 1 =>
        /\ \A t \in Threads : pc[t] = "size_exit" => loc[t].value <= capacity
        /\ last.op = "size" => last.ret <= capacity
        /\ Size(cache) <= capacity

\* C13 witness: a size() call has read the size of a full cache while a put
\* has returned before it.
C13_Witness ==
    \E t \in Threads :
        /\ capacity >= 1
        /\ pc[t] = "size_exit"
        /\ loc[t].value = capacity
        /\ last.op = "put"

\* The entries of c other than the one of key k, in their order.
C14_Others(c, k) ==
    LET Keep(e) == e.key # k
    IN  SelectSeq(c, Keep)

\* C14: the invalidation of a key removes its entry if it is present, does
\* nothing if it is absent, leaves the other entries and their recency order
\* as they were, and changes neither cache_hits nor cache_misses.
C14_DeleteContract ==
    [][(last'.op = "invalidate" /\ before' = cache) =>
          /\ ~Contains(cache', last'.key)
          /\ cache' = C14_Others(cache, last'.key)
          /\ ~Contains(cache, last'.key) => cache' = cache
          /\ cache_hits' = cache_hits
          /\ cache_misses' = cache_misses]_vars

\* C14 witness: a key that was present and not the newest entry has just
\* been invalidated, after a get had been counted.
C14_Witness ==
    /\ last.op = "invalidate"
    /\ Len(before) >= 2
    /\ Contains(before, last.key)
    /\ before[Len(before)].key # last.key
    /\ Size(cache) = Len(before) - 1
    /\ cache_hits + cache_misses >= 1

\* C15: put changes neither cache_hits nor cache_misses nor any other
\* counter of the aggregator, whether it inserts, overwrites or evicts: the
\* hit and miss counters change only in a get.
C15_PutRecordsNothing ==
    [][/\ (last'.op = "put" /\ before' = cache) =>
              /\ cache_hits' = cache_hits
              /\ cache_misses' = cache_misses
              /\ request_count' = request_count
              /\ db_query_count' = db_query_count
              /\ response_times' = response_times
       /\ (cache_hits' # cache_hits \/ cache_misses' # cache_misses) =>
              last'.op = "get"]_vars

\* C15 witness: a put has just evicted an entry to insert a new key, after a
\* get had been counted.
C15_Witness ==
    /\ last.op = "put"
    /\ ~last.raised
    /\ capacity >= 1
    /\ Len(before) = capacity
    /\ ~Contains(before, last.key)
    /\ cache_hits + cache_misses >= 1

\* C16: request_count, db_query_count, cache_hits and cache_misses are never
\* negative and no call of the aggregator decreases any of them.
C16_CountersMonotone ==
    /\ [](/\ request_count >= 0
          /\ db_query_count >= 0
          /\ cache_hits >= 0
          /\ cache_misses >= 0)
    /\ [][/\ request_count' >= request_count
          /\ db_query_count' >= db_query_count
          /\ cache_hits' >= cache_hits
          /\ cache_misses' >= cache_misses]_vars

\* C16 witness: each of the four recording operations has been called, the
\* last call being a record_cache_miss.
C16_Witness ==
    /\ request_count >= 1
    /\ db_query_count >= 1
    /\ cache_hits >= 1
    /\ cache_misses >= 1
    /\ last.op = "record_cache_miss"

\* The calls of op that have written the counter and not yet returned
C17_PastStore(op) ==
    Cardinality({t \in Threads : loc[t].op = op /\ pc[t] \in {"m_append", "m_exit"}})

\* The record_request calls that have appended and not yet returned
C17_PastAppend ==
    Cardinality({t \in Threads : loc[t].op = "record_request" /\ pc[t] = "m_exit"})

C17_Min(a, b) == IF a <= b THEN a ELSE b

\* C17: each recording operation adds exactly one to its own counter and
\* nothing to the other three, and record_request appends one sample, also
\* when the calls come from several threads: each counter equals the number
\* of calls of its operation that have written it (no update is lost), and
\* the window holds one sample per record_request up to its length limit.
C17_ExactCounts ==
    /\ \A op \in RecordOps : CounterOf(op) = calls[op] + C17_PastStore(op)
    /\ Len(response_times) =
           C17_Min(calls.record_request + C17_PastAppend, WindowMaxLen)

\* C17 witness: calls of three different recording operations have returned
\* and no call is in progress.
C17_Witness ==
    /\ \A t \in Threads : pc[t] = "idle"
    /\ request_count \in {1, WindowMaxLen}
    /\ db_query_count = 1
    /\ cache_hits + cache_misses = 1

\* C18: whenever get_requests_per_minute() or get_avg_response_time() reads
\* the window, every counted request has its sample in it: the length of the
\* window is min(request_count, WindowMaxLen), so no accessor sees a
\* request counted and not yet appended.
C18_ReadersSeeWholeRequests ==
    \A t \in Threads :
        (/\ pc[t] = "m_read"
         /\ loc[t].op \in {"get_requests_per_minute", "get_avg_response_time"}) =>
            Len(response_times) = C17_Min(request_count, WindowMaxLen)

\* C18 witness: get_requests_per_minute() is about to read the window after
\* more than WindowMaxLen requests, the last call returned being a
\* record_request.
C18_Witness ==
    \E t \in Threads :
        /\ pc[t] = "m_read"
        /\ loc[t].op = "get_requests_per_minute"
        /\ request_count > WindowMaxLen
        /\ last.op = "record_request"

\* C19: two successive GET /students/{id} of the same existing student, with
\* no write to that student between them, return the same data, whatever
\* other requests touched the cache in between and whether the answers came
\* from the cache or from the database: a 200 of GET /students/{id} has the
\* body of the previous 200 for that id.
C19_RepeatableStudentRead ==
    [][\A s \in StudentIds :
          (/\ last'.op = "get_student"
           /\ last'.key = s
           /\ ~last'.raised
           /\ request_count' = request_count + 1
           /\ seen[s] # <<>>) => last'.ret = seen[s][1]]_vars

\* C20: once POST /grades for a student has returned success the cache holds
\* no analytics entry of that student; an analytics entry in the cache is
\* never older than a stored grade, and a 200 of GET /analytics/student/{id}
\* is computed from all the grades stored, the new one included.
C20_GradeInvalidatesAnalytics ==
    /\ (last.op = "add_grade" /\ ~last.raised) =>
           ~Contains(cache, AnalyticsKey(last.key))
    /\ \A s \in StudentIds :
           Contains(cache, AnalyticsKey(s)) =>
               Lookup(cache, AnalyticsKey(s)) = Analytics(s, grades[s])
    /\ (last.op = "get_student_analytics" /\ ~last.raised) =>
           last.ret = Analytics(last.key, grades[last.key])

\* C20 witness: POST /grades has just succeeded for a student whose analytics
\* were in the cache, computed from the grades stored before.
C20_Witness ==
    /\ last.op = "add_grade"
    /\ ~last.raised
    /\ Contains(before, AnalyticsKey(last.key))
    /\ Lookup(before, AnalyticsKey(last.key)).total_grades
           = Len(grades[last.key]) - 1

\* C21: every request the monitoring middleware handles adds exactly one to
\* request_count and exactly one sample to the window (the oldest sample
\* leaving a full window), and a request opens at most one database
\* connection, which adds exactly one to db_query_count: whenever
\* db_query_count has grown, request_count has grown too.
C21_RequestsAreCounted ==
    [][/\ request_count' = request_count + 1
       /\ Len(response_times') = C17_Min(Len(response_times) + 1, WindowMaxLen)
       /\ response_times'[Len(response_times')] = Sample(feed, request_count')
       /\ db_query_count' \in {db_query_count, db_query_count + 1}]_vars

C22_Abs(x) == IF x < 0 THEN 0 - x ELSE x

\* x, in units of 1e-6, is a multiple of 1e-6 nearest to y, in units of 1e-9
C22_Rounds(x, y) == 2 * C22_Abs(1000 * x - y) <= 1000

C23_Evicting ==
    /\ last.op = "put"
    /\ ~last.raised
    /\ ~Contains(before, last.key)
    /\ Len(before) >= capacity

\* C23: the cache lists its keys in the order of their most recent access
\* (a put, or a get that hit), least recent first, no two keys being accessed
\* by the same call; the key a put evicts is the one whose last access is
\* older than that of every other key that was in the cache.
C23_RecencyIsAccessOrder ==
    /\ \A i, j \in DOMAIN cache :
           i < j => /\ access.stamp[cache[i].key] >= 1
                    /\ access.stamp[cache[i].key] < access.stamp[cache[j].key]
    /\ C23_Evicting =>
           \E i \in DOMAIN before :
               /\ ~Contains(cache, before[i].key)
               /\ \A j \in DOMAIN before \ {i} :
                      /\ Contains(cache, before[j].key)
                      /\ access.stamp[before[i].key] < access.stamp[before[j].key]

\* C23 witness: after two puts and a get that hit the key put first, a put
\* has evicted the key put second.
C23_Witness ==
    /\ C23_Evicting
    /\ access.clock = 4
    /\ cache_hits = 1
    /\ Len(before) = 2
    /\ access.stamp[before[2].key] = 3
    /\ access.stamp[before[1].key] = 2
    /\ ~Contains(cache, before[1].key)

\* C24: a key that was in the cache when a call began is still there after
\* the call, with its value (the value put, if the call put this key),
\* unless the call invalidated it or was a put of a new key that found the
\* cache full while this key was the least recently used; a get and a put
\* that overwrites remove no entry.
C24_RemovedOnlyByEvictionOrInvalidation ==
    \A i \in DOMAIN before :
        LET k == before[i].key
        IN  /\ ~Contains(cache, k) =>
                   \/ last.op = "invalidate" /\ last.key = k
                   \/ /\ last.op = "put"
                      /\ ~last.raised
                      /\ ~Contains(before, last.key)
                      /\ Len(before) >= capacity
                      /\ i = 1
            /\ Contains(cache, k) =>
                   Lookup(cache, k) = IF last.op = "put" /\ last.key = k
                                      THEN last.val ELSE before[i].value

\* C24 witness: a put has just overwritten the value of the least recently
\* used key of a full cache, and both entries are still there.
C24_Witness ==
    /\ last.op = "put"
    /\ capacity = 2
    /\ Len(before) = 2
    /\ before[1].key = last.key
    /\ before[1].value # last.val
    /\ Size(cache) = 2

\* C25: a get of a key that is absent leaves the entries, their values and
\* their order as they were, and size() is the same before and after.
C25_MissChangesNothing ==
    (last.op = "get" /\ ~Contains(before, last.key)) =>
        /\ cache = before
        /\ Size(cache) = Size(before)
        /\ ~Contains(cache, last.key)

\* C25 witness: a get has just missed on a cache that holds other keys.
C25_Witness ==
    /\ last.op = "get"
    /\ ~Contains(before, last.key)
    /\ Len(before) = 2
    /\ cache_misses = 1

\* C26: on a cache of capacity 0 every put is rejected (it raises) or
\* inserts nothing, so that size() is 0 after any sequence of calls, and
\* every get misses.
C26_ZeroCapacityHoldsNothing ==
    capacity = 0 =>
        /\ Size(cache) = 0
        /\ last.op = "put" => (last.raised \/ cache = before)
        /\ last.op = "size" => last.ret = 0
        /\ last.op = "get" => (last.ret = None /\ cache = <<>>)
        /\ cache_hits = 0

\* C26 witness: on a cache of capacity 0 a get has missed and then a put was
\* rejected.
C26_Witness ==
    /\ capacity = 0
    /\ last.op = "put"
    /\ last.raised
    /\ cache_misses = 1
    /\ Size(cache) = 0

\* C27: every get, put and size call terminates under any interleaving of
\* callers of the cache and of the aggregator.  No thread that holds the
\* aggregator lock waits for the cache lock (the order is cache, then
\* aggregator), and every call that has started returns.
C27_CallsTerminate ==
    /\ [](\A t \in Threads : metricsLock.owner = t => pc[t] # "wait_cache")
    /\ \A t \in Threads : (pc[t] # "idle") ~> (pc[t] = "idle")

\* A get holds the cache lock and waits for the aggregator lock, which a
\* direct caller of the aggregator holds.
C27_Witness ==
    \E t, u \in Threads :
        /\ t # u
        /\ pc[t] \in {"get_hit", "get_miss"}
        /\ cacheLock.owner = t
        /\ metricsLock.owner = u
        /\ pc[u] \in {"m_load", "m_store", "m_append", "m_exit", "m_read", "m_return"}

\* C28: check_alerts writes the high-response-time alert exactly when the
\* window holds at least 3 samples and none of the 3 most recent ones is at or
\* below ALERT_RESPONSE_TIME_MS.
C28_Written == \E i \in DOMAIN last.ret : last.ret[i] = "High response time"

C28_HighResponseTimeAlert ==
    last.op = "check_alerts" =>
        LET n == Len(response_times)
        IN  C28_Written <=>
                /\ n >= 3
                /\ ~\E i \in (n - 2)..n : response_times[i] <= ALERT_RESPONSE_TIME_MS

\* The alert is written on three samples above the threshold that follow one
\* exactly at the threshold.
C28_Witness ==
    /\ last.op = "check_alerts"
    /\ C28_Written
    /\ Len(response_times) >= 4
    /\ response_times[Len(response_times) - 3] = ALERT_RESPONSE_TIME_MS

\* C29: an unlocked invalidation of a key, interleaved with a get or a put of
\* that key, never makes the get or the put fail: on a cache of capacity at
\* least 1 no call raises, every get that has returned was counted as one hit
\* or one miss, and the cache holds at most capacity entries.
C29_InvalidationIsHarmless ==
    capacity >= 1 =>
        /\ \A t \in Threads : ~loc[t].raised
        /\ last.op \in {"get", "put"} => ~last.raised
        /\ cache_hits + cache_misses =
              returned + Cardinality({t \in Threads :
                                         pc[t] \in {"record_exit", "get_exit"}})
        /\ Size(cache) <= capacity

\* C30: once the background task of a batch for a student has committed and
\* finished, the cache holds no analytics entry of that student computed from
\* the grades stored before the batch: an analytics entry that differs from
\* the analytics of the stored grades is there only while a task for that
\* student is between its commit and its invalidation.
C30_NoStaleAnalyticsAfterBatch ==
    \A s \in StudentIds :
        (/\ Contains(cache, AnalyticsKey(s))
         /\ Lookup(cache, AnalyticsKey(s)) # Analytics(s, grades[s]))
        => \E t \in Threads : pc[t] = "batch_pop" /\ loc[t].key = s

====
